---- MODULE Spec2Model ----
(***************************************************************************)
(* Client-side OAuth2 authorization-code + PKCE authentication core of     *)
(* src/src/hooks/use-auth.ts (the useAuth hook): the module-level token    *)
(* store, the token-endpoint and introspection calls, the                  *)
(* initialize / validateAndSetUser / exchangeCodeForToken / refreshToken   *)
(* chain started by the mount effect, and logout.                          *)
(*                                                                         *)
(* One step of the model is one browser task: a handler runs from the      *)
(* event that wakes it (effect invocation, network response) up to its     *)
(* next network await or to its completion.  Promise continuations that    *)
(* do not wait for the network are microtasks and run inside the step.     *)
(***************************************************************************)
EXTENDS Integers, Sequences, FiniteSets, TLC

\* ---------------------------------------------------------------- bounds
MaxRuns    == 2   \* invocations of initialize() in flight or recorded at once
MaxCalls   == 3   \* network responses delivered during one page session
MaxClock   == 1   \* clock ticks (seconds)
MaxSoloCalls == 4 \* network responses delivered when one instance runs alone
MaxMountCalls == 2 \* network responses delivered while instances come and go
MaxLogins  == 2   \* calls of login() on one page
MaxPieces  == 7   \* pieces of a token given to extractJwtId
MaxLength  == 45  \* length asked of generateRandomString

\* ---------------------------------------------------------------- values
NULL  == "null"
UNDEF == "undefined"

\* userDetails is null (<<>>) or one introspection result (<<data>>)
NoDetails == <<>>

\* localStorage holds no code verifier: getItem returns null, which the code
\* tests with !codeVerifier as it would test the empty string. A verifier is
\* the sequence of its characters.
NoVerifier == <<>>

\* memoryTokens.expiry = null
NoExpiry == 0 - 1

\* access tokens the token endpoint can issue: a JWT whose payload carries a
\* jti, and an opaque token without dots
Tokens == {"hdr.pjti.sig", "opaque"}

Codes     == {"abc123"}
Verifiers == {<<"x", "y", "z">>}
Users     == {"u1"}

\* React runs a mount effect once, and twice in a row under StrictMode
StrictModeEffects == 2

MsPerSecond      == 1000
DefaultExpiresIn == 3600
ExpiresIn        == {0, 1}   \* 0: the response has no expires_in

Falsy(v) == v \in {NULL, UNDEF, ""}

\* ------------------------------------------------------- pure functions
\* token.split(".")
Split(token) ==
    CASE token = "hdr.pjti.sig" -> <<"hdr", "pjti", "sig">>
      [] token = "opaque"       -> <<"opaque">>
      [] OTHER                  -> <<token>>

\* JSON.parse(atob(segment)): ok = FALSE when either call throws
DecodePayload(segment) ==
    CASE segment = "pjti"   -> [ok |-> TRUE,  jti |-> "jti1"]
      [] segment = "pnojti" -> [ok |-> TRUE,  jti |-> UNDEF]
      [] OTHER              -> [ok |-> FALSE, jti |-> UNDEF]

\* extractJwtId once token.split(".") has returned `parts`: lines 72-79
extractJwtId_parts(parts) ==
    LET payloadBase64 == IF Len(parts) >= 2 THEN parts[2] ELSE UNDEF
    IN  IF Falsy(payloadBase64) THEN NULL
        ELSE LET payload == DecodePayload(payloadBase64)
             IN  IF ~payload.ok THEN NULL
                 ELSE IF Falsy(payload.jti) THEN NULL ELSE payload.jti

extractJwtId(token) ==
    IF token = UNDEF THEN NULL            \* token.split throws, caught
    ELSE extractJwtId_parts(Split(token))

\* A token written as its pieces: "." is a dot, "pjti" the base64 text of a
\* JSON object with a jti, "pnojti" that of one without, "x" text that is not
\* the base64 of any JSON (as "not", "a", "jwt", "token", "plainstring").
\* Pieces that follow each other without a dot make one segment.
Pieces == {".", "pjti", "pnojti", "x"}

\* the tokens of up to n pieces
RECURSIVE TokensOfPieces(_)
TokensOfPieces(n) ==
    IF n = 0 THEN {<<>>}
    ELSE LET shorter == TokensOfPieces(n - 1)
         IN  shorter \cup {Append(t, p) : t \in {u \in shorter : Len(u) = n - 1},
                                          p \in Pieces}

\* token.split(".") of a token written as its pieces
RECURSIVE SplitPieces(_)
SplitPieces(pieces) ==
    IF pieces = <<>> THEN <<"">>
    ELSE LET before == SplitPieces(SubSeq(pieces, 1, Len(pieces) - 1))
             piece  == pieces[Len(pieces)]
         IN  IF piece = "." THEN Append(before, "")
             ELSE [before EXCEPT ![Len(before)] = @ \o piece]

\* ------------------------------------------------------ server answers
\* what the token endpoint can answer: a fetch failure, a non-2xx status, or
\* a 2xx JSON body with any combination of the fields the client reads
TokenResponses ==
    {[kind |-> k, access_token |-> UNDEF, status |-> UNDEF, expires_in |-> 0] :
        k \in {"net", "http"}}
    \cup
    {[kind |-> "json", access_token |-> "hdr.pjti.sig", status |-> UNDEF,
      expires_in |-> e] : e \in ExpiresIn}
    \cup
    {[kind |-> "json", access_token |-> "opaque", status |-> UNDEF,
      expires_in |-> 0]}
    \cup
    {[kind |-> "json", access_token |-> t, status |-> "auth_required",
      expires_in |-> 0] : t \in {"opaque", UNDEF}}
    \cup
    {[kind |-> "json", access_token |-> UNDEF, status |-> s, expires_in |-> 0] :
        s \in {UNDEF, "ok"}}

\* what the introspection endpoint can answer
IntrospectResponses ==
    {[kind |-> k, active |-> FALSE, sub |-> UNDEF] : k \in {"net", "http"}}
    \cup {[kind |-> "json", active |-> TRUE, sub |-> u] : u \in Users}
    \cup {[kind |-> "json", active |-> FALSE, sub |-> UNDEF]}

\* how the logout fetch can end: it resolves with a 2xx or a non-2xx status
\* (neither status nor body is read) or it rejects
LogoutResponses == {"ok", "http", "net"}

\* variant: the body is returned without looking at its fields
exchangeToken_Unchecked(resp) ==
    IF resp.kind = "net" THEN "NetworkError"
    ELSE IF resp.kind = "http" THEN "HTTPError"
    ELSE IF resp.kind = "text" THEN "SyntaxError"
    ELSE "none"

\* api.exchangeToken: the error it throws, or "none" when it returns tokens.
\* A 2xx body that is not JSON makes response.json() reject ("text"); a body
\* that is the JSON value null makes tokens.access_token throw ("null").
exchangeToken(resp) ==
    IF resp.kind = "net" THEN "NetworkError"
    ELSE IF resp.kind = "http" THEN "HTTPError"
    ELSE IF resp.kind = "text" THEN "SyntaxError"
    ELSE IF resp.kind = "null" THEN "TypeError"
    ELSE IF Falsy(resp.access_token) /\ Falsy(resp.status)
         THEN "IncompleteTokenDataError"
         ELSE "none"

\* what the token endpoint can do with one request: the fetch rejects, or it
\* resolves with an HTTP status and a body that is not JSON, is null, or is
\* an object with or without the fields access_token and status, each of
\* them possibly the empty string
HttpStatus == {200, 201, 204, 400, 401, 500}

TokenAnswers ==
    [fetch : {"rejects", "resolves"}, code : HttpStatus,
     body : {"text", "null", "object"},
     access_token : {UNDEF, "", "opaque", "hdr.pjti.sig"},
     status : {UNDEF, "", "ok", "auth_required"}]

\* response.ok
ResponseOk(code) == code \in 200..299

\* what api.exchangeToken gets to see of an answer
Received(answer) ==
    [kind |-> IF answer.fetch = "rejects" THEN "net"
              ELSE IF ~ResponseOk(answer.code) THEN "http"
              ELSE IF answer.body = "object" THEN "json"
              ELSE answer.body,
     access_token |-> IF answer.body = "object" THEN answer.access_token ELSE UNDEF,
     status |-> IF answer.body = "object" THEN answer.status ELSE UNDEF,
     expires_in |-> 0]

\* api.validateToken: the error it throws, or "none" when it returns data
validateToken(resp) ==
    IF resp.kind = "net" THEN "NetworkError"
    ELSE IF resp.kind = "http" THEN "HTTPError"
    ELSE "none"

\* ------------------------------------------------------------ the store
storage_setAccessToken(mem, token, expiresIn, clock) ==
    [accessToken |-> token, expiry |-> clock + expiresIn * MsPerSecond]

storage_clearAuth(mem) ==
    [accessToken |-> NULL, expiry |-> NoExpiry]

\* tokens.expires_in || 3600
OrDefault(expiresIn) == IF expiresIn = 0 THEN DefaultExpiresIn ELSE expiresIn


\* ------------------------------------------------------------ variables
VARIABLES
    now,            \* Date.now(), in milliseconds
    memoryTokens,   \* module-level {accessToken, expiry}
    codeVerifier,   \* localStorage["solar_oauth_code_verifier"]
    urlCode,        \* the code query parameter of window.location
    isLoggedIn,     \* useState of the mounted instance
    userDetails,    \* useState of the mounted instance
    authLoading,    \* useState of the mounted instance
    isInitializing, \* useRef latch of the mounted instance
    token,          \* token in the hook's return value at the last render
    commit,         \* React is running the mount effects of the mounted instance
    effects,        \* invocations of the mount effect on the mounted instance
    runs,           \* the invocations of initialize(), by number
    delivered,      \* network responses delivered to initialize() runs
    logout,         \* the logout() call whose POST is in flight, if any
    interceptors,   \* the request interceptors active on the client: the
                    \* bearer token each one attaches
    logins,         \* the calls of login(), by number
    location,       \* the navigation started by assigning window.location.href
    call,           \* a call of one of the module's functions on its own:
                    \* its arguments and, once it has ended, its outcome
    authToken       \* useState of AuthProvider: the token of the context value

vars == <<now, memoryTokens, codeVerifier, urlCode, isLoggedIn,
          userDetails, authLoading, isInitializing, token, commit, effects,
          runs, delivered, logout, interceptors, authToken, logins, location, call>>

RunIds == 1..MaxRuns

LoginIds == 1..MaxLogins

IdleRun ==
    [live |-> FALSE, status |-> "idle", stack |-> <<>>, clos |-> FALSE,
     start |-> "none", key |-> NULL, calls |-> 0, hist |-> <<>>,
     tags |-> {}, lastToken |-> NULL, lastData |-> NoDetails, alone |-> TRUE]

Top(stack) == stack[Len(stack)]
Pop(stack) == SubSeq(stack, 1, Len(stack) - 1)
Push(stack, frame) == Append(stack, frame)
Swap(stack, frame) == Append(Pop(stack), frame)

\* ----------------------------------------------- the state machine's code
\* A world w is what one handler step reads and writes: the store (mem), the
\* React state (li, ud), the URL (url), the durable storage (ver), the run's
\* await stack, and the run's record of what happened (calls, hist, tags).
\* The await stack names, from the outermost, the await each pending async
\* function is suspended at.

\* variant: the flag is set the wrong way round
SetLoggedOut_FlagInverted(w) == [w EXCEPT !.li = TRUE, !.ud = NoDetails]

\* setIsLoggedIn(false); setUserDetails(null)
SetLoggedOut(w) == [w EXCEPT !.li = FALSE, !.ud = NoDetails]

\* variant: setIsLoggedIn(true) is left out
SetUser_DetailsOnly(w, data) ==
    [w EXCEPT !.ud = <<data>>, !.dirty = TRUE, !.lastData = <<data>>]

\* setUserDetails(data); setIsLoggedIn(true)
SetUser(w, data) ==
    [w EXCEPT !.ud = <<data>>, !.li = TRUE, !.dirty = TRUE, !.lastData = <<data>>]

ClearAuth(w) == [w EXCEPT !.mem = storage_clearAuth(@)]

\* variant: the token is written to localStorage as well
StoreToken_AlsoDurable(w, resp) ==
    [w EXCEPT !.mem = storage_setAccessToken(@, resp.access_token,
                                             OrDefault(resp.expires_in), w.clock),
              !.lastToken = resp.access_token,
              !.ver = <<resp.access_token>>]

\* storage.setAccessToken(tokens.access_token, tokens.expires_in || 3600)
StoreToken(w, resp) ==
    [w EXCEPT !.mem = storage_setAccessToken(@, resp.access_token,
                                             OrDefault(resp.expires_in), w.clock),
              !.lastToken = resp.access_token]

Raise(w, err) == [w EXCEPT !.tags = @ \cup {err}]

\* a fetch is sent and the run suspends at `frame`
Await(w, frame) ==
    [w EXCEPT !.stack = Push(@, frame), !.status = "waiting", !.calls = @ + 1]

\* refreshToken(), up to its await of the token endpoint
refreshToken(w) == Await(w, "refresh.token")

\* variant: initialize() has no catch block and rejects
initialize_catch_Missing(w) == [w EXCEPT !.stack = <<>>, !.status = "rejected"]

\* the catch blocks of initialize() (lines 235-238 and 241-244)
initialize_catch(w) ==
    [SetLoggedOut(w) EXCEPT !.stack = <<>>, !.status = "resolved"]

\* initialize() returns after the awaited call returned
initialize_return(w) == [w EXCEPT !.stack = <<>>, !.status = "resolved"]

\* variant: the URL is left as it is
StripQuery_Missing(w) == w

\* window.history.replaceState({}, document.title, window.location.pathname)
StripQuery(w) == [w EXCEPT !.url = NULL]

\* variant: the catch block leaves the store as it is
refreshToken_catch_KeepsStore(w) == SetLoggedOut(w)

\* catch block of refreshToken (lines 211-215)
refreshToken_catch(w) == SetLoggedOut(ClearAuth(w))

\* inner catch block of validateAndSetUser (lines 167-172), before the rethrow
validate_refreshCatch(w) == Raise(SetLoggedOut(ClearAuth(w)), "validate.rethrown")

\* variant: the catch block rethrows
exchange_catch_Rethrows(sig) == sig

\* catch {} of exchangeCodeForToken (line 193): the exchange call returns
exchange_catch(sig) == "return"

\* The async function suspended at the top of w.stack gets the outcome `sig`
\* ("return" or "throw") of the call it awaits, and runs on.
RECURSIVE Resume(_, _)
Resume(w, sig) ==
    LET frame == Top(w.stack)
        up    == [w EXCEPT !.stack = Pop(@)]
    IN  CASE frame = "validate.tryRefresh" ->
                IF sig = "return" THEN Resume(up, "return")
                ELSE refreshToken([w EXCEPT !.stack = Swap(@, "validate.catchRefresh")])
          [] frame = "validate.catchRefresh" ->
                IF sig = "return" THEN Resume(up, "return")
                ELSE Resume(validate_refreshCatch(up), "throw")
          [] frame = "refresh.validate" ->
                IF sig = "return" THEN Resume(up, "return")
                ELSE Resume(refreshToken_catch(up), "return")
          [] frame = "exchange.validate" ->
                Resume(up, exchange_catch(sig))
          [] frame = "init.validate" ->
                IF sig = "return" THEN initialize_return(w) ELSE initialize_catch(w)
          [] frame = "init.exchange" ->
                IF sig = "return" THEN initialize_return(StripQuery(w))
                ELSE initialize_catch(Raise(w, "exchange.rejected"))
          [] frame = "init.refresh" ->
                IF sig = "return" THEN initialize_return(w)
                ELSE initialize_catch(Raise(w, "refresh.rejected"))
          [] frame = "call.validate" ->
                [w EXCEPT !.stack = <<>>,
                          !.status = IF sig = "return" THEN "resolved" ELSE "rejected"]
          [] OTHER -> [w EXCEPT !.status = "rejected"]

\* the key sent to introspection: the jti when the token has one
IntrospectionKey(accessToken) ==
    LET tokenId == extractJwtId(accessToken)
    IN  IF Falsy(tokenId) THEN accessToken ELSE tokenId

\* validateAndSetUser(accessToken), up to its await of introspection; the
\* caller is suspended at the top of w.stack
validateAndSetUser(w, accessToken) ==
    IF w.clos /\ w.mem.accessToken = accessToken
    THEN Resume(Raise(w, "shortcircuit"), "return")
    ELSE Await([w EXCEPT !.key = IntrospectionKey(accessToken)],
               "validate.introspect")

\* variant: an inactive token or a failed introspection ends the validation
\* without a refresh
validateAndSetUser_resp_NoRefresh(w0, resp) ==
    LET w == [w0 EXCEPT !.hist = Append(@,
                 IF validateToken(resp) # "none" THEN "i:failed"
                 ELSE IF resp.active THEN "i:active" ELSE "i:inactive")]
    IN  IF validateToken(resp) = "none" /\ resp.active
        THEN Resume(SetUser([w EXCEPT !.stack = Pop(@)],
                            [active |-> TRUE, sub |-> resp.sub]), "return")
        ELSE Resume([w EXCEPT !.stack = Pop(@)], "return")

\* validateAndSetUser after the introspection answered
validateAndSetUser_resp(w0, resp) ==
    LET w == [w0 EXCEPT !.hist = Append(@,
                 IF validateToken(resp) # "none" THEN "i:failed"
                 ELSE IF resp.active THEN "i:active" ELSE "i:inactive")]
    IN  IF validateToken(resp) # "none"
        THEN refreshToken(Raise([w EXCEPT !.stack = Swap(@, "validate.catchRefresh")],
                                validateToken(resp)))
        ELSE IF resp.active
        THEN Resume(SetUser([w EXCEPT !.stack = Pop(@)],
                            [active |-> TRUE, sub |-> resp.sub]), "return")
        ELSE refreshToken([w EXCEPT !.stack = Swap(@, "validate.tryRefresh")])

TokenEvent(resp) ==
    IF exchangeToken(resp) # "none" THEN "t:" \o exchangeToken(resp)
    ELSE IF resp.status = "auth_required" /\ Falsy(resp.access_token)
         THEN "t:auth_required"
    ELSE IF Falsy(resp.access_token) THEN "t:status_only"
    ELSE IF resp.status = "auth_required" THEN "t:token+auth_required"
    ELSE "t:token"

\* refreshToken after the token endpoint answered
refreshToken_resp(w0, resp) ==
    LET w == [w0 EXCEPT !.hist = Append(@, TokenEvent(resp))]
    IN  IF exchangeToken(resp) # "none"
        THEN Resume(refreshToken_catch(Raise([w EXCEPT !.stack = Pop(@)],
                                             exchangeToken(resp))), "return")
        ELSE IF resp.status = "auth_required"
        THEN Resume(SetLoggedOut([w EXCEPT !.stack = Pop(@)]), "return")
        ELSE validateAndSetUser(
                 StoreToken([w EXCEPT !.stack = Swap(@, "refresh.validate")], resp),
                 resp.access_token)

\* variant: the verifier is not checked before the request is sent
exchangeCodeForToken_Unchecked(w, verifier) == Await(w, "exchange.token")

\* exchangeCodeForToken(code), up to its await of the token endpoint
exchangeCodeForToken(w, verifier) ==
    IF verifier = NoVerifier
    THEN Resume(Raise(w, "MissingCodeVerifierError"), "throw")
    ELSE Await(w, "exchange.token")

\* exchangeCodeForToken after the token endpoint answered
exchangeCodeForToken_resp(w0, resp) ==
    LET w == [w0 EXCEPT !.hist = Append(@, TokenEvent(resp))]
    IN  IF exchangeToken(resp) # "none"
        THEN Resume(Raise([w EXCEPT !.stack = Pop(@)], exchangeToken(resp)),
                    exchange_catch("throw"))
        ELSE validateAndSetUser(
                 StoreToken([w EXCEPT !.stack = Swap(@, "exchange.validate")], resp),
                 resp.access_token)

\* variant: the expiry of the stored token is not compared with the clock
InitBranch_IgnoresExpiry(mem, url, clock) ==
    IF ~Falsy(mem.accessToken) /\ mem.expiry # NoExpiry /\ mem.expiry # 0
    THEN "stored"
    ELSE IF ~Falsy(url) THEN "code" ELSE "refresh"

\* the branch initialize() takes
InitBranch(mem, url, clock) ==
    IF ~Falsy(mem.accessToken) /\ mem.expiry # NoExpiry /\ mem.expiry # 0
       /\ mem.expiry > clock
    THEN "stored"
    ELSE IF ~Falsy(url) THEN "code" ELSE "refresh"

\* initialize(), up to its first network await
initialize(w, verifier) ==
    LET branch == InitBranch(w.mem, w.url, w.clock)
        w1     == [w EXCEPT !.start = branch]
    IN  CASE branch = "stored" ->
                validateAndSetUser([w1 EXCEPT !.stack = <<"init.validate">>],
                                   w.mem.accessToken)
          [] branch = "code" ->
                exchangeCodeForToken([w1 EXCEPT !.stack = <<"init.exchange">>],
                                     verifier)
          [] OTHER ->
                refreshToken([w1 EXCEPT !.stack = <<"init.refresh">>])


\* ---------------------------------------------------------------- login()
\* the charset of generateRandomString
Charset ==
    <<"a", "b", "c", "d", "e", "f", "g", "h", "i", "j", "k", "l", "m",
      "n", "o", "p", "q", "r", "s", "t", "u", "v", "w", "x", "y", "z",
      "0", "1", "2", "3", "4", "5", "6", "7", "8", "9">>

\* login() asks for a verifier of this length
VerifierLength == 43

\* what Math.floor(Math.random() * charset.length) returns for each
\* character of one verifier: the least index every time, the greatest
\* every time, or a mix
RandomSources ==
    { [i \in 1..VerifierLength |-> 0],
      [i \in 1..VerifierLength |-> Len(Charset) - 1],
      [i \in 1..VerifierLength |-> (7 * i) % Len(Charset)] }

\* variant: one character short
generateRandomString_OffByOne(length, random) ==
    [i \in 1..(length - 1) |-> Charset[random[i] + 1]]

\* generateRandomString(length): charAt of the charset at each random index
generateRandomString(length, random) ==
    [i \in 1..length |-> Charset[random[i] + 1]]

\* createCodeChallenge(verifier): the base64url text of the SHA-256 digest
\* of the verifier, a value determined by the verifier and, collisions
\* aside, determining it
createCodeChallenge(verifier) == <<"base64url", "SHA-256", verifier>>

\* a call of login(): not made, awaiting the digest ("digest"), past the
\* assignment to window.location.href ("redirected"), ended in its catch
\* ("failed"), or cut off by the page unloading ("unloaded"); the calls are
\* numbered in the order they were made, and resumed numbers their
\* continuations in the order they ran
IdleLogin == [status |-> "idle", verifier |-> NoVerifier, resumed |-> 0]

\* window.location.href was not assigned
NoRedirect == <<>>

\* the continuations of login() calls that have run on the page so far
LoginEvents ==
    Cardinality({l \in LoginIds : logins[l].resumed > 0})

\* the page is still running scripts
PageAlive == IF location = NoRedirect THEN TRUE ELSE ~location[1].committed

\* login() up to its await of createCodeChallenge
LoginStarts(l, random) ==
    /\ PageAlive
    /\ logins[l].status = "idle"
    /\ \A k \in LoginIds : k < l => logins[k].status # "idle"
    /\ logins' = [logins EXCEPT ![l] =
                     [status   |-> "digest",
                      verifier |-> generateRandomString(VerifierLength, random),
                      resumed  |-> 0]]
    /\ UNCHANGED <<call, now, memoryTokens, codeVerifier, urlCode, isLoggedIn,
                   userDetails, authLoading, isInitializing, token, commit,
                   effects, runs, delivered, logout, interceptors, authToken, location>>

\* login() after the digest: storage.set of the verifier, then the
\* assignment to window.location.href, which replaces a navigation that
\* has not committed yet
LoginResumes(l) ==
    /\ PageAlive
    /\ logins[l].status = "digest"
    /\ codeVerifier' = logins[l].verifier
    /\ location' = <<[code_challenge        |-> createCodeChallenge(logins[l].verifier),
                      code_challenge_method |-> "S256",
                      committed             |-> FALSE]>>
    /\ logins' = [logins EXCEPT ![l].status = "redirected",
                                ![l].resumed = LoginEvents + 1]
    /\ UNCHANGED <<call, now, memoryTokens, urlCode, isLoggedIn, userDetails,
                   authLoading, isInitializing, token, commit, effects, runs,
                   delivered, logout, interceptors, authToken>>

\* login() when the digest rejects: catch {} swallows it before storage.set
LoginFails(l) ==
    /\ PageAlive
    /\ logins[l].status = "digest"
    /\ logins' = [logins EXCEPT ![l].status = "failed",
                                ![l].resumed = LoginEvents + 1]
    /\ UNCHANGED <<call, now, memoryTokens, codeVerifier, urlCode, isLoggedIn,
                   userDetails, authLoading, isInitializing, token, commit,
                   effects, runs, delivered, logout, interceptors, authToken, location>>

\* the navigation commits: the page unloads and no continuation of it runs
\* any more
PageUnloads ==
    /\ location # NoRedirect
    /\ ~location[1].committed
    /\ location' = <<[location[1] EXCEPT !.committed = TRUE]>>
    /\ logins' = [l \in LoginIds |->
                     IF logins[l].status = "digest"
                     THEN [logins[l] EXCEPT !.status = "unloaded"]
                     ELSE logins[l]]
    /\ UNCHANGED <<call, now, memoryTokens, codeVerifier, urlCode, isLoggedIn,
                   userDetails, authLoading, isInitializing, token, commit,
                   effects, runs, delivered, logout, interceptors, authToken>>

\* ---------------------------------------------------------------- actions
\* "none", or whether the instance that called logout() is still mounted
\* ("live") or not ("dead")
NoLogout == "none"

\* no function of the module is called on its own
NoCall == <<>>

\* the page has loaded and the provider has rendered for the first time
PageLoaded ==
    /\ now = 0
    /\ memoryTokens = [accessToken |-> NULL, expiry |-> NoExpiry]
    /\ codeVerifier \in {NoVerifier} \cup Verifiers
    /\ urlCode \in {NULL} \cup Codes
    /\ isLoggedIn = FALSE
    /\ userDetails = NoDetails
    /\ authLoading = TRUE
    /\ isInitializing = FALSE
    /\ token = NULL
    /\ commit = TRUE
    /\ effects = 0
    /\ runs = [r \in RunIds |-> IdleRun]
    /\ delivered = 0
    /\ logout = NoLogout
    /\ interceptors = <<>>
    /\ authToken = NULL
    /\ logins = [l \in LoginIds |-> IdleLogin]
    /\ location = NoRedirect

Init ==
    /\ PageLoaded
    /\ call = NoCall

\* no promise continuation is queued: the browser is between two tasks
BetweenTasks ==
    /\ ~commit
    /\ \A r \in RunIds : runs[r].status \notin {"resolved", "rejected"}

\* the world a step of `run` starts from
World(run) ==
    [mem |-> memoryTokens, li |-> isLoggedIn, ud |-> userDetails,
     url |-> urlCode, ver |-> codeVerifier, clock |-> now, dirty |-> FALSE,
     status |-> run.status, stack |-> run.stack, clos |-> run.clos,
     start |-> run.start, key |-> run.key, calls |-> run.calls,
     hist |-> run.hist, tags |-> run.tags, lastToken |-> run.lastToken,
     lastData |-> run.lastData, alone |-> run.alone]

RunOf(w, live, status) ==
    [live |-> live, status |-> status, stack |-> w.stack, clos |-> w.clos,
     start |-> w.start, key |-> w.key, calls |-> w.calls, hist |-> w.hist,
     tags |-> w.tags, lastToken |-> w.lastToken, lastData |-> w.lastData,
     alone |-> w.alone]

\* Bookkeeping: what a run of an unmounted instance did is not recorded; its
\* await stack and its closure stay until it ends
Forget(run) ==
    IF run.status \in {"idle", "done", "failed"} THEN IdleRun
    ELSE [IdleRun EXCEPT !.status = run.status, !.stack = run.stack,
                         !.clos = run.clos, !.alone = FALSE]

\* Bookkeeping: a run in flight stops being alone when another run or a
\* logout() takes a step; run r itself becomes `own`.
Others(r, own) ==
    [q \in RunIds |->
        IF q = r THEN own
        ELSE IF runs[q].status = "waiting"
             THEN [runs[q] EXCEPT !.alone = FALSE] ELSE runs[q]]

InFlight == {r \in RunIds : runs[r].status \in {"waiting", "resolved", "rejected"}}

\* variant: the effect returns no cleanup, the interceptor is never ejected
AuthProvider_effect_NoEject(old, new) ==
    interceptors' =
        IF new = old THEN interceptors
        ELSE IF new[1] /\ ~Falsy(new[2]) THEN Append(interceptors, new[2])
             ELSE interceptors

\* AuthProvider's useEffect(..., [isLoggedIn, token, client]), lines 79-92 of
\* AuthProvider.tsx, after a render of the provider (or its unmount): when
\* the dependencies changed, the cleanup of the previous run ejects the
\* interceptor that run installed, then the effect installs one carrying the
\* rendered token if isLoggedIn && token.  `old` and `new` are the
\* <<isLoggedIn, token>> of the previous and of this render.
AuthProvider_effect(old, new) ==
    interceptors' =
        IF new = old THEN interceptors
        ELSE LET ejected == IF old[1] /\ ~Falsy(old[2]) THEN Pop(interceptors)
                            ELSE interceptors
             IN  IF new[1] /\ ~Falsy(new[2]) THEN Append(ejected, new[2])
                 ELSE ejected

\* setAuthToken(token), line 86 of AuthProvider.tsx: called by the effect
\* when it runs with isLoggedIn && token, and nowhere else
setAuthToken(old, new) ==
    IF new = old THEN authToken
    ELSE IF new[1] /\ ~Falsy(new[2]) THEN new[2] ELSE authToken

\* the hook's return value is rebuilt when the component renders, and the
\* component renders when a state setter changed a value (a fresh
\* introspection object always counts as a change)
Rendered(changed) ==
    /\ token' = IF changed THEN memoryTokens'.accessToken ELSE token
    /\ AuthProvider_effect(<<isLoggedIn, token>>, <<isLoggedIn', token'>>)
    /\ authToken' = setAuthToken(<<isLoggedIn, token>>, <<isLoggedIn', token'>>)

\* variant: the latch is released but authLoading is not reset
Finally_KeepsLoading(live) ==
    IF live
    THEN authLoading' = authLoading /\ isInitializing' = FALSE
    ELSE UNCHANGED <<authLoading, isInitializing>>

\* .finally(() => { setAuthLoading(false); isInitializing.current = false })
Finally(live) ==
    IF live
    THEN authLoading' = FALSE /\ isInitializing' = FALSE
    ELSE UNCHANGED <<authLoading, isInitializing>>

\* The step of run r ended in world w.  State setters of an unmounted
\* instance do nothing; the store and the URL belong to the page.
Commit(r, live, w, afterAwait) ==
    LET settles == afterAwait /\ w.status \in {"resolved", "rejected"}
    IN  /\ memoryTokens' = w.mem
        /\ urlCode' = w.url
        /\ codeVerifier' = w.ver
        /\ isLoggedIn' = IF live THEN w.li ELSE isLoggedIn
        /\ userDetails' = IF live THEN w.ud ELSE userDetails
        /\ LET own == RunOf(w, live, IF settles
                                       THEN (IF w.status = "resolved"
                                             THEN "done" ELSE "failed")
                                       ELSE w.status)
           IN  runs' = Others(r, IF live THEN own ELSE Forget(own))
        /\ IF settles THEN Finally(live)
           ELSE UNCHANGED <<authLoading, isInitializing>>
        /\ Rendered(live /\ (w.dirty \/ <<isLoggedIn, userDetails, authLoading>>
                                        # <<isLoggedIn', userDetails', authLoading'>>))

\* useEffect(() => { ... }, []) finds the latch set: lines 282
MountEffectSkipped ==
    /\ commit
    /\ effects < StrictModeEffects
    /\ isInitializing
    /\ effects' = effects + 1
    /\ UNCHANGED <<call, logins, location, now, memoryTokens, codeVerifier, urlCode, isLoggedIn,
                   userDetails, authLoading, isInitializing, token, commit, runs,
                   delivered, logout, interceptors, authToken>>

\* the mount effect starts initialize(): lines 283-286, and initialize() up
\* to its first network await
MountEffectRuns(r) ==
    /\ commit
    /\ effects < StrictModeEffects
    /\ ~isInitializing
    /\ runs[r].status = "idle"
    /\ \A q \in RunIds : q < r => runs[q].status # "idle"
    /\ effects' = effects + 1
    /\ LET w == initialize([World(IdleRun) EXCEPT !.clos = isLoggedIn,
                                                  !.alone = InFlight = {}
                                                     /\ logout = NoLogout],
                           codeVerifier)
       IN  /\ memoryTokens' = w.mem
           /\ urlCode' = w.url
           /\ codeVerifier' = w.ver
           /\ isLoggedIn' = w.li
           /\ userDetails' = w.ud
           /\ runs' = Others(r, RunOf(w, TRUE, w.status))
           /\ isInitializing' = TRUE
           /\ authLoading' = TRUE
           /\ Rendered(w.dirty \/ <<isLoggedIn, userDetails, authLoading>>
                                  # <<isLoggedIn', userDetails', authLoading'>>)
    /\ UNCHANGED <<call, logins, location, now, commit, delivered, logout>>

\* React has run the mount effects (once, or twice under StrictMode) and
\* returns to the event loop
CommitEnds ==
    /\ commit
    /\ effects >= 1
    /\ commit' = FALSE
    /\ UNCHANGED <<call, logins, location, now, memoryTokens, codeVerifier, urlCode, isLoggedIn,
                   userDetails, authLoading, isInitializing, token, effects,
                   runs, delivered, logout, interceptors, authToken>>

\* initialize() settled without waiting for the network: its .finally runs
Settle(r) ==
    /\ ~commit
    /\ runs[r].status \in {"resolved", "rejected"}
    /\ runs' = [runs EXCEPT ![r].status =
                   IF runs[r].status = "resolved" THEN "done" ELSE "failed"]
    /\ Finally(runs[r].live)
    /\ UNCHANGED <<call, logins, location, now, memoryTokens, codeVerifier, urlCode, isLoggedIn,
                   userDetails, commit, effects, delivered, logout>>
    /\ Rendered(authLoading' # authLoading)

\* the introspection endpoint answers run r
IntrospectionAnswers(r, resp, budget) ==
    /\ BetweenTasks
    /\ runs[r].status = "waiting"
    /\ Top(runs[r].stack) = "validate.introspect"
    /\ delivered < budget
    /\ delivered' = delivered + 1
    /\ Commit(r, runs[r].live, validateAndSetUser_resp(World(runs[r]), resp), TRUE)
    /\ UNCHANGED <<call, logins, location, now, commit, effects, logout>>

\* the token endpoint answers the refresh grant of run r
RefreshAnswers(r, resp, budget) ==
    /\ BetweenTasks
    /\ runs[r].status = "waiting"
    /\ Top(runs[r].stack) = "refresh.token"
    /\ delivered < budget
    /\ delivered' = delivered + 1
    /\ Commit(r, runs[r].live, refreshToken_resp(World(runs[r]), resp), TRUE)
    /\ UNCHANGED <<call, logins, location, now, commit, effects, logout>>

\* the token endpoint answers the authorization_code grant of run r
ExchangeAnswers(r, resp, budget) ==
    /\ BetweenTasks
    /\ runs[r].status = "waiting"
    /\ Top(runs[r].stack) = "exchange.token"
    /\ delivered < budget
    /\ delivered' = delivered + 1
    /\ Commit(r, runs[r].live, exchangeCodeForToken_resp(World(runs[r]), resp), TRUE)
    /\ UNCHANGED <<call, logins, location, now, commit, effects, logout>>

\* logout() is called and sends its POST: lines 266-271
LogoutStarts ==
    /\ BetweenTasks
    /\ logout = NoLogout
    /\ logout' = "live"
    /\ runs' = Others(0, IdleRun)
    /\ UNCHANGED <<call, logins, location, now, memoryTokens, codeVerifier, urlCode, isLoggedIn,
                   userDetails, authLoading, isInitializing, token, commit, effects,
                   delivered, interceptors, authToken>>

\* variant: the finally block resets the state but not the store
logout_finally_KeepsStore(live) ==
    /\ memoryTokens' = memoryTokens
    /\ isLoggedIn' = IF live THEN FALSE ELSE isLoggedIn
    /\ userDetails' = IF live THEN NoDetails ELSE userDetails

\* the finally block of logout(): lines 272-276
logout_finally(live) ==
    /\ memoryTokens' = storage_clearAuth(memoryTokens)
    /\ isLoggedIn' = IF live THEN FALSE ELSE isLoggedIn
    /\ userDetails' = IF live THEN NoDetails ELSE userDetails

\* the logout POST is answered, or fails
LogoutAnswers(outcome) ==
    /\ BetweenTasks
    /\ logout # NoLogout
    /\ logout' = NoLogout
    /\ logout_finally(logout = "live")
    /\ Rendered(<<isLoggedIn, userDetails>> # <<isLoggedIn', userDetails'>>)
    /\ runs' = Others(0, IdleRun)
    /\ UNCHANGED <<call, logins, location, now, codeVerifier, urlCode, authLoading, isInitializing,
                   commit, effects, delivered>>

\* the provider is unmounted and a new instance is mounted: fresh useState
\* and useRef values, the module-level store is kept
Remount ==
    /\ BetweenTasks
    /\ \E r \in RunIds : runs[r].status \in {"idle", "done", "failed"}
    /\ isLoggedIn' = FALSE
    /\ userDetails' = NoDetails
    /\ authLoading' = TRUE
    /\ isInitializing' = FALSE
    /\ commit' = TRUE
    /\ effects' = 0
    /\ token' = memoryTokens.accessToken
    /\ AuthProvider_effect(<<isLoggedIn, token>>, <<FALSE, token'>>)
    /\ authToken' = NULL
    /\ runs' = [r \in RunIds |-> Forget(runs[r])]
    /\ logout' = IF logout = NoLogout THEN NoLogout ELSE "dead"
    /\ UNCHANGED <<call, logins, location, now, memoryTokens, codeVerifier, urlCode, delivered>>

\* time passes; Date.now() is read only to compute a stored expiry (line 46)
\* and the expiry is never read back, so the clock is advanced only while the
\* store holds one, and only where one instance runs alone (NextSolo)
Tick ==
    /\ BetweenTasks
    /\ memoryTokens.expiry # NoExpiry
    /\ now < MaxClock * MsPerSecond
    /\ now' = now + MsPerSecond
    /\ UNCHANGED <<call, logins, location, memoryTokens, codeVerifier, urlCode, isLoggedIn,
                   userDetails, authLoading, isInitializing, token, commit,
                   effects, runs, delivered, logout, interceptors, authToken>>

Next ==
    \/ MountEffectSkipped
    \/ \E r \in RunIds : MountEffectRuns(r)
    \/ CommitEnds
    \/ \E r \in RunIds : Settle(r)
    \/ \E r \in RunIds, resp \in IntrospectResponses : IntrospectionAnswers(r, resp, MaxCalls)
    \/ \E r \in RunIds, resp \in TokenResponses : RefreshAnswers(r, resp, MaxCalls)
    \/ \E r \in RunIds, resp \in TokenResponses : ExchangeAnswers(r, resp, MaxCalls)
    \/ LogoutStarts
    \/ \E outcome \in LogoutResponses : LogoutAnswers(outcome)
    \/ Remount

Spec == Init /\ [][Next]_vars

\* the answers of a token endpoint that keeps to its interface: an error, a
\* body without access_token and status, an access token, or status
\* "auth_required" without a token
ProtocolTokenResponses ==
    {resp \in TokenResponses :
        TokenEvent(resp) \notin {"t:status_only", "t:token+auth_required"}}

\* one provider instance on its own: no remount and no logout, a token
\* endpoint that keeps to its interface, and a deeper validate/refresh chain
NextSolo ==
    \/ MountEffectSkipped
    \/ \E r \in RunIds : MountEffectRuns(r)
    \/ CommitEnds
    \/ \E r \in RunIds : Settle(r)
    \/ \E r \in RunIds, resp \in IntrospectResponses :
           IntrospectionAnswers(r, resp, MaxSoloCalls)
    \/ \E r \in RunIds, resp \in ProtocolTokenResponses :
           RefreshAnswers(r, resp, MaxSoloCalls)
    \/ \E r \in RunIds, resp \in ProtocolTokenResponses :
           ExchangeAnswers(r, resp, MaxSoloCalls)
    \/ Tick

SoloSpec == Init /\ [][NextSolo]_vars

\* provider instances mounted one after the other while time passes: no
\* logout, any answer of the token endpoint
NextMount ==
    \/ MountEffectSkipped
    \/ \E r \in RunIds : MountEffectRuns(r)
    \/ CommitEnds
    \/ \E r \in RunIds : Settle(r)
    \/ \E r \in RunIds, resp \in IntrospectResponses :
           IntrospectionAnswers(r, resp, MaxMountCalls)
    \/ \E r \in RunIds, resp \in TokenResponses :
           RefreshAnswers(r, resp, MaxMountCalls)
    \/ \E r \in RunIds, resp \in TokenResponses :
           ExchangeAnswers(r, resp, MaxMountCalls)
    \/ Remount
    \/ Tick

MountSpec == Init /\ [][NextMount]_vars

\* Scenario E: once initialize() of run r has ended Authenticated,
\* validateAndSetUser(token) is called again with the stored token, on the
\* auth object initialize() ran on (the one the mount effect captured, the
\* only one the hook ever calls: lines 281-290)
ValidateAgain(r) ==
    /\ BetweenTasks
    /\ runs[r].status = "done"
    /\ runs[r].live
    /\ "again" \notin runs[r].tags
    /\ isLoggedIn
    /\ memoryTokens.accessToken \in Tokens
    /\ Commit(r, TRUE,
              validateAndSetUser([World(runs[r]) EXCEPT !.stack = <<"call.validate">>,
                                                        !.tags = @ \cup {"again"}],
                                 memoryTokens.accessToken),
              FALSE)
    /\ UNCHANGED <<call, logins, location, now, commit, effects, delivered, logout>>

\* one provider instance on its own, and the second call of Scenario E
NextScenarioE ==
    \/ NextSolo
    \/ \E r \in RunIds : ValidateAgain(r)

ScenarioESpec == Init /\ [][NextScenarioE]_vars

TypeOK ==
    /\ now \in 0..(MaxClock * MsPerSecond)
    /\ memoryTokens.accessToken \in Tokens \cup {NULL, UNDEF}
    /\ isLoggedIn \in BOOLEAN
    /\ authLoading \in BOOLEAN
    /\ Len(userDetails) <= 1


\* ----------------------------------------------------------- properties
\* initialize() of run r resolves in this step
Resolves(r) ==
    /\ runs[r].status \in {"idle", "waiting"}
    /\ runs'[r].status \in {"resolved", "done"}

\* initialize() of run r and its .finally have completed in this step
Completes(r) ==
    /\ runs[r].status \in {"waiting", "resolved"}
    /\ runs'[r].status = "done"

StatusAuthRequired == {"t:auth_required", "t:token+auth_required"}
TokenIssued        == {"t:token", "t:token+auth_required"}
TokenFailures      == {"t:NetworkError", "t:HTTPError", "t:IncompleteTokenDataError"}

ScenarioC(run) ==
    /\ run.start = "stored"
    /\ Len(run.hist) = 2
    /\ run.hist[1] = "i:inactive"
    /\ run.hist[2] \in StatusAuthRequired

\* C1: when initialize() starts with a stored, unexpired token, introspection
\* answers active:false and the refresh grant answers status "auth_required",
\* then at the moment initialize() resolves isLoggedIn is false and
\* userDetails is null.
C1_ScenarioC ==
    [][\A r \in RunIds :
          (Resolves(r) /\ ScenarioC(runs'[r]) /\ runs'[r].live)
          => (isLoggedIn' = FALSE /\ userDetails' = NoDetails)]_vars

C1_Witness ==
    \E r \in RunIds :
        /\ runs[r].status = "done"
        /\ ScenarioC(runs[r])
        /\ runs[r].live
        /\ ~isLoggedIn
        /\ userDetails = NoDetails

ScenarioB(run) ==
    /\ run.start = "code"
    /\ Len(run.hist) = 2
    /\ run.hist[1] \in TokenIssued
    /\ run.hist[2] = "i:active"

\* C2: when initialize() starts with no valid stored token, a code parameter
\* in the URL and a persisted verifier, the token endpoint returns an access
\* token and introspection answers active:true (and nothing else acts on the
\* session meanwhile), then at the moment initialize() resolves isLoggedIn is
\* true, userDetails is the introspection result, the store holds the
\* returned access token and the URL has no code parameter.
C2_ScenarioB ==
    [][\A r \in RunIds :
          (Resolves(r) /\ ScenarioB(runs'[r]) /\ runs'[r].alone
             /\ runs'[r].live)
          => /\ isLoggedIn' = TRUE
             /\ userDetails' = runs'[r].lastData
             /\ userDetails' # NoDetails
             /\ memoryTokens'.accessToken = runs'[r].lastToken
             /\ memoryTokens'.accessToken \in Tokens
             /\ urlCode' = NULL]_vars

C2_Witness ==
    \E r \in RunIds :
        /\ runs[r].status = "done"
        /\ ScenarioB(runs[r])
        /\ runs[r].alone
        /\ runs[r].live
        /\ isLoggedIn
        /\ userDetails = runs[r].lastData
        /\ memoryTokens.accessToken = runs[r].lastToken
        /\ urlCode = NULL

ScenarioA(run) ==
    /\ run.start = "refresh"
    /\ run.hist = <<"t:HTTPError">>

\* C3: when initialize() starts with no stored token and no code parameter
\* and the refresh call answers non-2xx, then once initialize() has settled
\* isLoggedIn is false, userDetails is null and authLoading is false.
C3_ScenarioA ==
    [][\A r \in RunIds :
          (Completes(r) /\ ScenarioA(runs'[r]) /\ runs'[r].live)
          => /\ isLoggedIn' = FALSE
             /\ userDetails' = NoDetails
             /\ authLoading' = FALSE]_vars

C3_Witness ==
    \E r \in RunIds :
        /\ runs[r].status = "done"
        /\ ScenarioA(runs[r])
        /\ runs[r].live
        /\ ~isLoggedIn /\ userDetails = NoDetails /\ ~authLoading


Errors == {"NetworkError", "HTTPError", "IncompleteTokenDataError",
           "MissingCodeVerifierError"}

\* the promise of initialize() of run r settles in this step, either way
Ends(r) ==
    /\ runs[r].status \in {"idle", "waiting"}
    /\ runs'[r].status \notin {"idle", "waiting"}

Last(seq) == seq[Len(seq)]

EndsActive(run) == run.hist # <<>> /\ Last(run.hist) = "i:active"

\* C4 as stated: initialize() never rejects, and whenever an exception was
\* raised along its path the state is isLoggedIn=false, userDetails=null when
\* it settles.
C4_Original ==
    [][\A r \in RunIds :
          Ends(r) =>
             /\ runs'[r].status \in {"resolved", "done"}
             /\ (runs'[r].live /\ runs'[r].tags \cap Errors # {})
                => (isLoggedIn' = FALSE /\ userDetails' = NoDetails)]_vars

\* C4 (amended): initialize() never rejects; every exception raised along its
\* path is caught, and when it settles the state is isLoggedIn=false,
\* userDetails=null unless a later refresh of the same run obtained a token
\* whose introspection answered active.
C4_NeverRejects ==
    [][\A r \in RunIds :
          Ends(r) =>
             /\ runs'[r].status \in {"resolved", "done"}
             /\ (runs'[r].live /\ runs'[r].tags \cap Errors # {}
                   /\ ~EndsActive(runs'[r]))
                => (isLoggedIn' = FALSE /\ userDetails' = NoDetails)
             /\ (runs'[r].live /\ runs'[r].tags \cap Errors # {}
                   /\ EndsActive(runs'[r]))
                => (isLoggedIn' = TRUE /\ userDetails' = runs'[r].lastData)]_vars

C4_Witness ==
    \E r \in RunIds :
        /\ runs[r].status = "done"
        /\ runs[r].live
        /\ "MissingCodeVerifierError" \in runs[r].tags
        /\ ~isLoggedIn /\ userDetails = NoDetails

C4_WitnessRecovered ==
    \E r \in RunIds :
        /\ runs[r].status = "done"
        /\ runs[r].tags \cap Errors # {}
        /\ EndsActive(runs[r])
        /\ isLoggedIn

\* C5 as stated: initialize() runs once per provider instance and no two runs
\* of initialize() are in flight at the same time.
C5_SingleFlight ==
    /\ Cardinality(InFlight) <= 1
    /\ \A r, q \in RunIds : (runs[r].live /\ runs[q].live) => r = q

\* C6 as stated: the store holds an access token exactly when it holds an
\* expiry.
C6_TokenAndExpiryTogether ==
    (memoryTokens.accessToken \in Tokens) <=> (memoryTokens.expiry # NoExpiry)

LogoutCompletes ==
    /\ logout = "live"
    /\ logout' = NoLogout

\* a new provider instance is mounted in this step
Mounts == ~commit /\ commit'

\* C7 as stated: whenever initialize() settles with isLoggedIn=false, or
\* logout() completes, or the provider mounts, the token in the session state
\* is null and userDetails is null.
C7_ResetClearsToken ==
    [][((\E r \in RunIds : Completes(r) /\ runs'[r].live /\ ~isLoggedIn')
         \/ LogoutCompletes
         \/ Mounts)
       => (Falsy(token') /\ userDetails' = NoDetails)]_vars

\* C8: in every reachable state userDetails is set exactly when isLoggedIn is
\* true.
C8_DetailsIffLoggedIn ==
    isLoggedIn <=> userDetails # NoDetails

C8_Witness ==
    /\ isLoggedIn
    /\ userDetails # NoDetails
    /\ \E r \in RunIds : runs[r].status = "done" /\ runs[r].live
                          /\ userDetails = runs[r].lastData

C8_WitnessLogout ==
    /\ ~isLoggedIn
    /\ userDetails = NoDetails
    /\ \E r \in RunIds : runs[r].status = "done" /\ runs[r].live
                          /\ EndsActive(runs[r])
    /\ memoryTokens = storage_clearAuth(memoryTokens)
    /\ logout = NoLogout

\* C9: exchangeCodeForToken(code) called while no code verifier is persisted
\* throws the missing-code-verifier error, sends no network request, and
\* leaves the token store and the session state as they were.
C9_ScenarioD ==
    [][\A r \in RunIds :
          /\ (runs[r].status = "idle" /\ runs'[r].start = "code"
                /\ codeVerifier = NoVerifier)
             => /\ "MissingCodeVerifierError" \in runs'[r].tags
                /\ "exchange.rejected" \in runs'[r].tags
                /\ runs'[r].calls = 0
                /\ runs'[r].hist = <<>>
                /\ memoryTokens' = memoryTokens
                /\ isLoggedIn' = isLoggedIn
                /\ userDetails' = userDetails
          /\ ("MissingCodeVerifierError" \in runs'[r].tags)
             => (runs'[r].calls = 0 /\ runs'[r].hist = <<>>)]_vars

C9_Witness ==
    \E r \in RunIds :
        /\ runs[r].start = "code"
        /\ "MissingCodeVerifierError" \in runs[r].tags
        /\ runs[r].calls = 0
        /\ codeVerifier = NoVerifier

\* C10 as stated: exchangeCodeForToken(code) never rejects to initialize().
C10_Original ==
    \A r \in RunIds : "exchange.rejected" \notin runs[r].tags

\* C10 (amended): a failure of the token exchange inside
\* exchangeCodeForToken(code) is swallowed: the call returns to initialize()
\* and the state is isLoggedIn=false, userDetails=null when initialize()
\* resolves; only the missing-code-verifier error, thrown before the
\* exchange, rejects to initialize(), whose catch settles the same state.
C10_ExchangeFailureSwallowed ==
    [][\A r \in RunIds :
          (Ends(r) /\ runs'[r].start = "code") =>
             /\ ("exchange.rejected" \in runs'[r].tags)
                <=> ("MissingCodeVerifierError" \in runs'[r].tags)
             /\ (runs'[r].hist # <<>> /\ runs'[r].hist[1] \in TokenFailures)
                => /\ runs'[r].status = "done"
                   /\ Len(runs'[r].hist) = 1
                   /\ runs'[r].live
                      => (isLoggedIn' = FALSE /\ userDetails' = NoDetails)
             /\ ("MissingCodeVerifierError" \in runs'[r].tags
                   /\ runs'[r].live)
                => (isLoggedIn' = FALSE /\ userDetails' = NoDetails)]_vars

C10_Witness ==
    \E r \in RunIds :
        /\ runs[r].status = "done"
        /\ runs[r].start = "code"
        /\ runs[r].live
        /\ runs[r].hist # <<>>
        /\ runs[r].hist[1] \in TokenFailures
        /\ "exchange.rejected" \notin runs[r].tags
        /\ ~isLoggedIn /\ userDetails = NoDetails

\* C11 as stated: whenever initialize() takes the authorization-code branch,
\* the URL has no code parameter at the moment initialize() resolves, whatever
\* the outcome of the exchange.
C11_CodeStripped ==
    [][\A r \in RunIds :
          (Resolves(r) /\ runs'[r].start = "code") => urlCode' = NULL]_vars

\* initialize() of run r starts in this step
Starts(r) ==
    /\ runs[r].status = "idle"
    /\ runs'[r].status # "idle"

\* the store holds an access token whose expiry is in the future
StoredTokenValid ==
    /\ memoryTokens.accessToken \in Tokens
    /\ memoryTokens.expiry # NoExpiry
    /\ memoryTokens.expiry > now

\* the request the run waits for, if any
PendingCall(run) ==
    IF run.status = "waiting" THEN Top(run.stack) ELSE "none"

\* C12: initialize() takes exactly one of three branches in strict priority:
\* a stored access token whose expiry is in the future is validated, with no
\* code exchange even if the URL has a code parameter; otherwise a code
\* parameter is exchanged, with no direct refresh; otherwise the refresh
\* grant is sent.  A stored token whose expiry is not in the future is never
\* sent to introspection by initialize().
C12_BranchPriority ==
    [][\A r \in RunIds :
          Starts(r) =>
             /\ StoredTokenValid
                => /\ runs'[r].start = "stored"
                   /\ runs'[r].stack = <<"init.validate", "validate.introspect">>
                   /\ runs'[r].key = IntrospectionKey(memoryTokens.accessToken)
             /\ (~StoredTokenValid /\ urlCode # NULL)
                => /\ runs'[r].start = "code"
                   /\ PendingCall(runs'[r]) \in {"exchange.token", "none"}
                   /\ PendingCall(runs'[r]) = "exchange.token"
                      => runs'[r].stack = <<"init.exchange", "exchange.token">>
             /\ (~StoredTokenValid /\ urlCode = NULL)
                => /\ runs'[r].start = "refresh"
                   /\ runs'[r].stack = <<"init.refresh", "refresh.token">>
             /\ ~StoredTokenValid
                => PendingCall(runs'[r]) # "validate.introspect"]_vars

\* a run started while the store held an expired token
C12_Witness ==
    \E r \in RunIds :
        /\ runs[r].live
        /\ runs[r].status = "waiting"
        /\ runs[r].start \in {"code", "refresh"}
        /\ runs[r].calls = 1
        /\ runs[r].hist = <<>>
        /\ memoryTokens.accessToken \in Tokens
        /\ memoryTokens.expiry # NoExpiry
        /\ memoryTokens.expiry <= now

\* a run validates the stored token while the URL has a code parameter
C12_WitnessStored ==
    \E r \in RunIds :
        /\ runs[r].live
        /\ runs[r].start = "stored"
        /\ PendingCall(runs[r]) = "validate.introspect"
        /\ runs[r].calls = 1
        /\ urlCode # NULL

\* C13 as stated (Scenario E): validateAndSetUser(token) called while the
\* state is Authenticated and the store's current token equals token returns
\* without an introspection call.
C13_ShortCircuit ==
    [][\A r \in RunIds :
          (/\ runs[r].status = "done"
           /\ runs'[r].status # "done"
           /\ isLoggedIn
           /\ memoryTokens.accessToken \in Tokens)
          => /\ runs'[r].calls = runs[r].calls
             /\ PendingCall(runs'[r]) = "none"
             /\ "shortcircuit" \in runs'[r].tags]_vars

\* the short-circuit of validateAndSetUser is never taken
C13_NeverShortCircuits ==
    \A r \in RunIds : "shortcircuit" \notin runs[r].tags

\* the introspection of run r is answered in this step, with `events`
Introspected(r, events) ==
    /\ runs[r].status = "waiting"
    /\ Top(runs[r].stack) = "validate.introspect"
    /\ Len(runs'[r].hist) = Len(runs[r].hist) + 1
    /\ Last(runs'[r].hist) \in events

\* C14: in validateAndSetUser(token), when introspection reports the token
\* inactive or the introspection call throws, refreshToken() is called (the
\* refresh grant is sent and awaited inside validateAndSetUser); if that
\* refresh throws, the token store is cleared, the state is isLoggedIn=false,
\* userDetails=null, and the error is rethrown to the caller.
C14_RefreshAfterFailedValidation ==
    [][\A r \in RunIds :
          /\ (runs[r].live /\ Introspected(r, {"i:inactive", "i:failed"}))
             => /\ PendingCall(runs'[r]) = "refresh.token"
                /\ runs'[r].calls = runs[r].calls + 1
                /\ runs'[r].stack[Len(runs'[r].stack) - 1]
                      \in {"validate.tryRefresh", "validate.catchRefresh"}
                /\ Last(runs'[r].hist) = "i:failed"
                   => runs'[r].stack[Len(runs'[r].stack) - 1] = "validate.catchRefresh"
          /\ (runs'[r].live /\ "validate.rethrown" \in runs'[r].tags
                /\ "validate.rethrown" \notin runs[r].tags)
             => /\ memoryTokens' = storage_clearAuth(memoryTokens)
                /\ isLoggedIn' = FALSE
                /\ userDetails' = NoDetails]_vars

C14_Witness ==
    \E r \in RunIds :
        /\ runs[r].live
        /\ PendingCall(runs[r]) = "refresh.token"
        /\ runs[r].hist # <<>>
        /\ Last(runs[r].hist) \in {"i:inactive", "i:failed"}
        /\ Len(runs[r].stack) >= 2
        /\ runs[r].stack[Len(runs[r].stack) - 1]
              \in {"validate.tryRefresh", "validate.catchRefresh"}

\* the refresh awaited by validateAndSetUser never throws to it
C14_RefreshNeverThrows ==
    \A r \in RunIds : "validate.rethrown" \notin runs[r].tags

\* the refresh grant of run r is answered in this step, with `events`
Refreshed(r, events) ==
    /\ runs[r].status = "waiting"
    /\ Top(runs[r].stack) = "refresh.token"
    /\ Len(runs'[r].hist) = Len(runs[r].hist) + 1
    /\ Last(runs'[r].hist) \in events

\* C15: refreshToken() never rejects: status "auth_required" settles
\* isLoggedIn=false, userDetails=null without being treated as an error; any
\* other accepted response stores the new access token and calls
\* validateAndSetUser on it; any error thrown by the exchange or by the nested
\* validation clears the token store and settles isLoggedIn=false,
\* userDetails=null.
C15_RefreshNeverRejects ==
    [][\A r \in RunIds :
          /\ (runs[r].live /\ Refreshed(r, StatusAuthRequired))
             => /\ isLoggedIn' = FALSE
                /\ userDetails' = NoDetails
                /\ memoryTokens' = memoryTokens
                /\ runs'[r].tags \cap Errors = runs[r].tags \cap Errors
                /\ runs'[r].status = "done"
          /\ (runs[r].live /\ Refreshed(r, {"t:token", "t:status_only"}))
             => /\ memoryTokens'.accessToken = runs'[r].lastToken
                /\ memoryTokens'.expiry # NoExpiry
                /\ PendingCall(runs'[r]) = "validate.introspect"
                /\ runs'[r].key = IntrospectionKey(runs'[r].lastToken)
                /\ runs'[r].stack[Len(runs'[r].stack) - 1] = "refresh.validate"
          /\ (runs[r].live /\ Refreshed(r, TokenFailures))
             => /\ memoryTokens' = storage_clearAuth(memoryTokens)
                /\ isLoggedIn' = FALSE
                /\ userDetails' = NoDetails
                /\ runs'[r].status = "done"
          /\ "refresh.rejected" \notin runs'[r].tags
          /\ "validate.rethrown" \notin runs'[r].tags]_vars

\* a refresh that failed after the run had stored a token
C15_Witness ==
    \E r \in RunIds :
        /\ runs[r].live
        /\ runs[r].status = "done"
        /\ Len(runs[r].hist) >= 2
        /\ Last(runs[r].hist) \in TokenFailures
        /\ runs[r].lastToken \in Tokens
        /\ memoryTokens = storage_clearAuth(memoryTokens)
        /\ ~isLoggedIn /\ userDetails = NoDetails

C15_WitnessAuthRequired ==
    \E r \in RunIds :
        /\ runs[r].live
        /\ runs[r].status = "done"
        /\ runs[r].hist # <<>>
        /\ Last(runs[r].hist) \in StatusAuthRequired
        /\ ~isLoggedIn /\ userDetails = NoDetails

\* C16: logout() clears the token store and settles Unauthenticated whatever
\* the network outcome (2xx, non-2xx, fetch failure): when logout() completes
\* the stored access token and expiry are null, isLoggedIn is false and
\* userDetails is null; logout() never rejects.
C16_LogoutClears ==
    [][/\ LogoutCompletes
          => /\ memoryTokens'.accessToken = NULL
             /\ memoryTokens'.expiry = NoExpiry
             /\ isLoggedIn' = FALSE
             /\ userDetails' = NoDetails
       /\ (logout # NoLogout /\ logout' = NoLogout)
          => memoryTokens' = storage_clearAuth(memoryTokens)]_vars

\* logout() completed on an instance whose initialize() had ended
\* Authenticated with a stored token
C16_Witness ==
    /\ logout = NoLogout
    /\ memoryTokens.accessToken = NULL
    /\ memoryTokens.expiry = NoExpiry
    /\ ~isLoggedIn
    /\ userDetails = NoDetails
    /\ token = NULL
    /\ \E r \in RunIds : /\ runs[r].status = "done"
                         /\ runs[r].live
                         /\ EndsActive(runs[r])
                         /\ runs[r].lastToken \in Tokens

\* initialize() of the mounted instance and its .finally have completed
Initialized ==
    \E r \in RunIds : runs[r].live /\ runs[r].status \in {"done", "failed"}

\* C17: authLoading is true only while Initializing: it is true from mount
\* until the single initialize() run of the instance settles, false from then
\* on, and no later transition (logout, refresh, validate, repeated effect
\* invocation) sets it back to true.
C17_LoadingOnlyWhileInitializing ==
    [][/\ authLoading' <=> ~Initialized'
       /\ (~authLoading /\ authLoading') => Mounts
       /\ \A r, q \in RunIds : (runs'[r].live /\ runs'[q].live) => r = q]_vars

\* initialize() has settled, a logout() ran afterwards, authLoading is false
C17_Witness ==
    /\ ~authLoading
    /\ Initialized
    /\ ~commit
    /\ effects = StrictModeEffects
    /\ logout = "live"

C17_WitnessLoading ==
    /\ authLoading
    /\ ~commit
    /\ \E r \in RunIds : runs[r].live /\ runs[r].status = "waiting"
                          /\ runs[r].calls >= 2

\* C18: at every moment at most one request interceptor installed by the
\* provider is active on the client (the previous one is ejected before a new
\* one is installed, on every change of the dependencies and on unmount), and
\* none is installed while isLoggedIn is false or the rendered token is null.
C18_AtMostOneInterceptor ==
    /\ Len(interceptors) <= 1
    /\ interceptors # <<>> => (isLoggedIn /\ ~Falsy(token))

\* an interceptor is active on an instance that ended Authenticated
C18_Witness ==
    /\ Len(interceptors) = 1
    /\ isLoggedIn
    /\ token \in Tokens
    /\ \E r \in RunIds : runs[r].live /\ runs[r].status = "done"
                          /\ EndsActive(runs[r])

\* the interceptor of an instance that ended Authenticated has been ejected
C18_WitnessEjected ==
    /\ interceptors = <<>>
    /\ ~isLoggedIn
    /\ \E r \in RunIds : runs[r].live /\ runs[r].status = "done"
                          /\ EndsActive(runs[r])
                          /\ runs[r].lastToken \in Tokens
                          /\ runs[r].alone

\* C19 as stated: whenever a provider-installed interceptor is active, the
\* bearer token it attaches is the access token currently held by the token
\* store.
C19_BearerIsStoredToken ==
    \A i \in 1..Len(interceptors) : interceptors[i] = memoryTokens.accessToken


\* the calls of login() on one page, overlapping or not
NextLogin ==
    \/ \E l \in LoginIds, random \in RandomSources : LoginStarts(l, random)
    \/ \E l \in LoginIds : LoginResumes(l)
    \/ \E l \in LoginIds : LoginFails(l)
    \/ PageUnloads

LoginSpec == Init /\ [][NextLogin]_vars

\* the characters a code verifier may consist of
LowerAlnum ==
    {"a", "b", "c", "d", "e", "f", "g", "h", "i", "j", "k", "l", "m",
     "n", "o", "p", "q", "r", "s", "t", "u", "v", "w", "x", "y", "z",
     "0", "1", "2", "3", "4", "5", "6", "7", "8", "9"}

\* C20: a login() that gets past its digest overwrites the persisted code
\* verifier with its own; from then on the one persisted verifier is 43
\* characters over [a-z0-9] and is the verifier whose challenge is the
\* code_challenge of the redirect the page is performing, however the
\* login() calls overlap.
C20_OneLiveVerifier ==
    [][/\ \A l \in LoginIds :
            (logins[l].status = "digest" /\ logins'[l].status = "redirected")
            => codeVerifier' = logins[l].verifier
       /\ (\E l \in LoginIds : logins'[l].status = "redirected")
          => /\ Len(codeVerifier') = 43
             /\ \A i \in 1..Len(codeVerifier') : codeVerifier'[i] \in LowerAlnum
             /\ location' # NoRedirect
             /\ location'[1].code_challenge = createCodeChallenge(codeVerifier')
             /\ location'[1].code_challenge_method = "S256"]_vars

\* two overlapping login() calls with different verifiers, the one that was
\* made first resuming last, and a navigation that committed
C20_Witness ==
    \E a, b \in LoginIds :
        /\ logins[a].status = "redirected" /\ logins[b].status = "redirected"
        /\ logins[a].verifier # logins[b].verifier
        /\ a < b
        /\ logins[b].resumed < logins[a].resumed
        /\ codeVerifier = logins[a].verifier
        /\ location # NoRedirect /\ location[1].committed

\* run r sends its authorization_code request in this step
SendsExchange(r) ==
    /\ PendingCall(runs[r]) # "exchange.token"
    /\ PendingCall(runs'[r]) = "exchange.token"

\* the run has sent an authorization_code request: exchangeCodeForToken is
\* on its await stack past the verifier check, or it has returned
ExchangeSent(run) ==
    \/ Len(run.stack) >= 2 /\ run.stack[1] = "init.exchange"
    \/ run.start = "code" /\ run.calls >= 1

\* login() rewrites the persisted verifier in this step
LoginRewrites ==
    \E l \in LoginIds : logins[l].status = "digest"
                         /\ logins'[l].status = "redirected"

\* C21 as stated: no persisted verifier is sent in more than one
\* authorization_code request: a run of initialize() sends one only if no
\* other run has sent one since the last login() rewrote the verifier (no
\* login() takes place while the runs of a page session are under way), and
\* only login() changes the persisted verifier.
C21_VerifierSentOnce ==
    [][/\ \A r, q \in RunIds :
            (r # q /\ SendsExchange(r)) => ~ExchangeSent(runs[q])
       /\ codeVerifier' # codeVerifier => LoginRewrites]_vars

\* initialize() of the mounted instance has settled and nothing is in flight
Quiescent ==
    /\ BetweenTasks
    /\ \A r \in RunIds : runs[r].status \in {"idle", "done", "failed"}
    /\ Initialized

\* one provider instance whose user signs in: the run of initialize(), then
\* the calls of login(), up to the moment the navigation that login()
\* started commits, with a token endpoint that keeps to its interface.
\* login() and the run of initialize() share no state but
\* the persisted verifier, which initialize() reads in the mount effect,
\* before any login() of the page: the login() calls are taken after the run.
NextSession ==
    \/ MountEffectSkipped
    \/ \E r \in RunIds : MountEffectRuns(r)
    \/ CommitEnds
    \/ \E r \in RunIds : Settle(r)
    \/ \E r \in RunIds, resp \in IntrospectResponses :
           IntrospectionAnswers(r, resp, MaxMountCalls)
    \/ \E r \in RunIds, resp \in ProtocolTokenResponses :
           RefreshAnswers(r, resp, MaxMountCalls)
    \/ \E r \in RunIds, resp \in ProtocolTokenResponses :
           ExchangeAnswers(r, resp, MaxMountCalls)
    \/ \E l \in LoginIds, random \in RandomSources :
           Quiescent /\ LoginStarts(l, random)
    \/ \E l \in LoginIds : LoginResumes(l)
    \/ \E l \in LoginIds : LoginFails(l)

SessionSpec == Init /\ [][NextSession]_vars

\* the value is a code verifier: none, one persisted by an earlier page, or
\* 43 characters over [a-z0-9]
IsVerifier(v) ==
    \/ v = NoVerifier
    \/ v \in Verifiers
    \/ Len(v) = 43 /\ \A i \in 1..Len(v) : v[i] \in LowerAlnum

\* C22: the access token and its expiry are never written to durable
\* storage: the one durable key of the auth core, solar_oauth_code_verifier,
\* is written only by login(), also while tokens are stored and cleared, and
\* its value is always a code verifier.
C22_OnlyVerifierDurable ==
    [][/\ codeVerifier' # codeVerifier => LoginRewrites
       /\ IsVerifier(codeVerifier')
       /\ memoryTokens' # memoryTokens => codeVerifier' = codeVerifier]_vars

\* a token is in the store and login() has persisted a new verifier
C22_Witness ==
    /\ memoryTokens.accessToken \in Tokens
    /\ memoryTokens.expiry # NoExpiry
    /\ \E l \in LoginIds : /\ logins[l].status = "redirected"
                           /\ codeVerifier = logins[l].verifier
    /\ codeVerifier \notin Verifiers

\* --------------------------------------- the module's functions on their own
\* a call of function fn with argument arg that has not ended yet
Called(fn, arg) ==
    <<[fn |-> fn, arg |-> arg, ended |-> FALSE, outcome |-> "pending"]>>

\* the call of function fn ends with `outcome`
Ended(fn, outcome) ==
    /\ call # NoCall
    /\ call[1].fn = fn
    /\ ~call[1].ended
    /\ call' = <<[call[1] EXCEPT !.ended = TRUE, !.outcome = outcome]>>
    /\ UNCHANGED <<now, memoryTokens, codeVerifier, urlCode, isLoggedIn,
                   userDetails, authLoading, isInitializing, token, commit,
                   effects, runs, delivered, logout, interceptors, authToken, logins,
                   location>>

\* api.exchangeToken(params) is called and the token endpoint answers
InitExchangeToken ==
    /\ PageLoaded
    /\ \E answer \in TokenAnswers : call = Called("exchangeToken", answer)

ExchangeTokenEnds ==
    \E outcome \in {exchangeToken(Received(call[1].arg))} :
        Ended("exchangeToken", outcome)

ExchangeTokenSpec == InitExchangeToken /\ [][ExchangeTokenEnds]_vars

\* the answer is a 2xx with a JSON object as its body
AnswersObject(answer) ==
    /\ answer.fetch = "resolves"
    /\ ResponseOk(answer.code)
    /\ answer.body = "object"

C23_WitnessIncomplete ==
    /\ call # NoCall
    /\ call[1].fn = "exchangeToken"
    /\ call[1].ended
    /\ AnswersObject(call[1].arg)
    /\ call[1].arg.status = UNDEF
    /\ call[1].arg.access_token = UNDEF
    /\ call[1].outcome = "IncompleteTokenDataError"

\* extractJwtId(token) is called
InitExtractJwtId ==
    /\ PageLoaded
    /\ codeVerifier = NoVerifier
    /\ urlCode = NULL
    /\ \E t \in TokensOfPieces(MaxPieces) : call = Called("extractJwtId", t)

ExtractJwtIdEnds ==
    \E outcome \in {extractJwtId_parts(SplitPieces(call[1].arg))} :
        Ended("extractJwtId", outcome)

ExtractJwtIdSpec == InitExtractJwtId /\ [][ExtractJwtIdEnds]_vars

\* the dots of a token
Dots(pieces) == Cardinality({i \in 1..Len(pieces) : pieces[i] = "."})

\* the text between the first and the second dot (to the end when there is
\* one dot), or <<>> when there is no dot
RECURSIVE SecondSegment(_, _)
SecondSegment(pieces, dotsSeen) ==
    IF pieces = <<>> THEN <<>>
    ELSE IF pieces[1] = "."
         THEN IF dotsSeen = 1 THEN <<>>
              ELSE SecondSegment(Tail(pieces), dotsSeen + 1)
         ELSE IF dotsSeen = 1
              THEN <<pieces[1]>> \o SecondSegment(Tail(pieces), dotsSeen)
              ELSE SecondSegment(Tail(pieces), dotsSeen)

\* C24 as stated: extractJwtId(token) never throws (it returns null or a
\* jti), and returns null for every token that does not have exactly two
\* dots or whose middle segment does not decode to JSON; in particular for a
\* four-segment token and for a token with no dots.
C24_NullUnlessThreeSegments ==
    (call # NoCall /\ call[1].ended) =>
        LET t == call[1].arg
        IN  /\ call[1].outcome \in {NULL, "jti1"}
            /\ Dots(t) # 2 => call[1].outcome = NULL
            /\ SecondSegment(t, 0) \notin {<<"pjti">>, <<"pnojti">>}
               => call[1].outcome = NULL

\* what the code does: the jti of the second segment, however many dots
C24_SecondSegmentDecides ==
    (call # NoCall /\ call[1].ended) =>
        LET t == call[1].arg
        IN  /\ call[1].outcome \in {NULL, "jti1"}
            /\ call[1].outcome = "jti1" <=> SecondSegment(t, 0) = <<"pjti">>

\* Math.random() returns a multiple of 1/RandomUnit in [0, 1)
RandomUnit == 1000

\* Math.floor(Math.random() * charset.length) when Math.random() returned
\* draw/RandomUnit
RandomIndex(draw) == (draw * Len(Charset)) \div RandomUnit

\* the draws of Math.random() for a string of n characters: always the
\* least, always the greatest, or changing from character to character
Draws(n) ==
    {[i \in 1..n |-> (a * i + b) % RandomUnit] :
        a \in {0, 1, 333}, b \in {0, 500, RandomUnit - 1}}

\* generateRandomString(n) is called
InitGenerateRandomString ==
    /\ PageLoaded
    /\ codeVerifier = NoVerifier
    /\ urlCode = NULL
    /\ \E n \in 0..MaxLength : \E draws \in Draws(n) :
           call = Called("generateRandomString", [length |-> n, draws |-> draws])

GenerateRandomStringEnds ==
    \E outcome \in {generateRandomString(call[1].arg.length,
                        [i \in 1..call[1].arg.length |->
                            RandomIndex(call[1].arg.draws[i])])} :
        Ended("generateRandomString", outcome)

GenerateRandomStringSpec ==
    InitGenerateRandomString /\ [][GenerateRandomStringEnds]_vars

\* C25: for every length n >= 0, generateRandomString(n) returns a string of
\* exactly n characters, each drawn from the 36-symbol alphabet [a-z0-9].
C25_LengthAndAlphabet ==
    (call # NoCall /\ call[1].ended) =>
        /\ Len(call[1].outcome) = call[1].arg.length
        /\ \A i \in 1..Len(call[1].outcome) : call[1].outcome[i] \in LowerAlnum
        /\ Cardinality(LowerAlnum) = 36

\* a string of the length login() asks for whose first character came from
\* the greatest value Math.random() returns
C25_Witness ==
    /\ call # NoCall
    /\ call[1].fn = "generateRandomString"
    /\ call[1].ended
    /\ call[1].arg.length = VerifierLength
    /\ call[1].arg.draws[1] = RandomUnit - 1
    /\ Len(call[1].outcome) = VerifierLength
    /\ call[1].outcome[1] = "9"

\* the empty string for length 0
C25_WitnessEmpty ==
    /\ call # NoCall
    /\ call[1].fn = "generateRandomString"
    /\ call[1].ended
    /\ call[1].arg.length = 0
    /\ call[1].outcome = <<>>

\* ------------------------------------------------------------ termination
\* Bookkeeping for a chain of any length.  A validation that ends inactive
\* (or fails) awaits refreshToken(), and a refresh that gets a token awaits
\* validateAndSetUser(): every round leaves two more suspended calls on the
\* await stack, "refresh.validate" below "validate.tryRefresh" (or
\* "validate.catchRefresh").  refreshToken() never rejects, so each of these
\* calls, once resumed, only returns to its caller: two such pairs one above
\* the other unwind exactly as one does, and the lower pair is dropped.
FoldStack(stack) ==
    LET awaitsRefresh == {"validate.tryRefresh", "validate.catchRefresh"}
        doubled == {i \in 1..(Len(stack) - 3) :
                       /\ stack[i] = "refresh.validate"
                       /\ stack[i + 1] \in awaitsRefresh
                       /\ stack[i + 2] = "refresh.validate"
                       /\ stack[i + 3] \in awaitsRefresh}
    IN  IF doubled = {} THEN stack
        ELSE LET i == CHOOSE j \in doubled : \A k \in doubled : j <= k
             IN  SubSeq(stack, 1, i - 1) \o SubSeq(stack, i + 2, Len(stack))

\* Bookkeeping: of a long chain only the last two events and "two calls or
\* more" are recorded
Folded(w) ==
    [w EXCEPT !.stack = FoldStack(@),
              !.hist  = IF Len(@) > 2 THEN SubSeq(@, Len(@) - 1, Len(@)) ELSE @,
              !.calls = IF @ > 2 THEN 2 ELSE @]

\* the introspection endpoint answers run r: every call is answered
IntrospectionReturns(r, resp) ==
    /\ BetweenTasks
    /\ runs[r].status = "waiting"
    /\ Top(runs[r].stack) = "validate.introspect"
    /\ Commit(r, runs[r].live,
              Folded(validateAndSetUser_resp(World(runs[r]), resp)), TRUE)
    /\ UNCHANGED <<call, logins, location, now, commit, effects, logout, delivered>>

\* the token endpoint answers the refresh grant of run r: every call is
\* answered
RefreshReturns(r, resp) ==
    /\ BetweenTasks
    /\ runs[r].status = "waiting"
    /\ Top(runs[r].stack) = "refresh.token"
    /\ Commit(r, runs[r].live,
              Folded(refreshToken_resp(World(runs[r]), resp)), TRUE)
    /\ UNCHANGED <<call, logins, location, now, commit, effects, logout, delivered>>

\* the token endpoint answers the authorization_code grant of run r
ExchangeReturns(r, resp) ==
    /\ BetweenTasks
    /\ runs[r].status = "waiting"
    /\ Top(runs[r].stack) = "exchange.token"
    /\ Commit(r, runs[r].live,
              Folded(exchangeCodeForToken_resp(World(runs[r]), resp)), TRUE)
    /\ UNCHANGED <<call, logins, location, now, commit, effects, logout, delivered>>

\* one provider instance on its own and a server that answers every call,
\* however many there are
NextChain ==
    \/ MountEffectSkipped
    \/ \E r \in RunIds : MountEffectRuns(r)
    \/ CommitEnds
    \/ \E r \in RunIds : Settle(r)
    \/ \E r \in RunIds, resp \in IntrospectResponses : IntrospectionReturns(r, resp)
    \/ \E r \in RunIds, resp \in ProtocolTokenResponses : RefreshReturns(r, resp)
    \/ \E r \in RunIds, resp \in ProtocolTokenResponses : ExchangeReturns(r, resp)

\* React runs the mount effect, every promise continuation runs, and every
\* network call returns a response or an error: no step that can be taken is
\* put off forever
ChainSpec == Init /\ [][NextChain]_vars /\ WF_vars(NextChain)

\* C26: if every network call eventually returns, initialize() eventually
\* settles and authLoading eventually becomes false, whatever the server
\* answers
C26_InitializeSettles == <>(Initialized /\ ~authLoading)

\* --------------------------------------------------- token and session
\* the live run whose introspection of `accessToken` (by jti or raw token)
\* was the last thing it heard, and was active
IntrospectedActive(accessToken) ==
    \E r \in RunIds :
        /\ runs[r].live
        /\ runs[r].hist # <<>>
        /\ Last(runs[r].hist) = "i:active"
        /\ runs[r].key = IntrospectionKey(accessToken)

\* C27: whenever the state is Authenticated, the access token held in the
\* store is the token whose introspection returned active; no token obtained
\* by code exchange or refresh counts as authenticated without having been
\* introspected, also when two chains overlap
C27_AuthenticatedTokenIntrospected ==
    isLoggedIn => IntrospectedActive(memoryTokens.accessToken)

\* C27, first half: isLoggedIn becomes true only in the step in which an
\* introspection of the mounted instance's run answered active
C27_LoggedInOnlyByActive ==
    [][(~isLoggedIn /\ isLoggedIn') =>
          \E r \in RunIds :
              /\ runs[r].status = "waiting"
              /\ Top(runs[r].stack) = "validate.introspect"
              /\ runs'[r].live
              /\ Len(runs'[r].hist) = Len(runs[r].hist) + 1
              /\ Last(runs'[r].hist) = "i:active"]_vars

\* one provider instance and its logout(): no remount, a token endpoint that
\* keeps to its interface
NextInstance ==
    \/ MountEffectSkipped
    \/ \E r \in RunIds : MountEffectRuns(r)
    \/ CommitEnds
    \/ \E r \in RunIds : Settle(r)
    \/ \E r \in RunIds, resp \in IntrospectResponses :
           IntrospectionAnswers(r, resp, MaxCalls)
    \/ \E r \in RunIds, resp \in ProtocolTokenResponses :
           RefreshAnswers(r, resp, MaxCalls)
    \/ \E r \in RunIds, resp \in ProtocolTokenResponses :
           ExchangeAnswers(r, resp, MaxCalls)
    \/ LogoutStarts
    \/ \E outcome \in LogoutResponses : LogoutAnswers(outcome)

InstanceSpec == Init /\ [][NextInstance]_vars

\* C28: in every reachable state isLoggedIn implies that the token store
\* holds a non-null access token, for every interleaving of initialize(), its
\* validate/refresh chain and logout()
C28_LoggedInHasToken ==
    isLoggedIn => ~Falsy(memoryTokens.accessToken)

\* Where one instance is mounted once (NextInstance), a run is not alone
\* only because logout() took a step while it was in flight: a logout() has
\* completed since initialize() started, and none is pending
LogoutCompletedSince(run) ==
    /\ run.live
    /\ ~run.alone
    /\ logout = NoLogout

\* C29: once logout() has completed, isLoggedIn stays false and the token
\* store stays empty until a new initialize() run starts: a call that was in
\* flight when logout() was called does not, on completing, store a token or
\* set isLoggedIn back to true
C29_LogoutIsFinal ==
    \A r \in RunIds :
        LogoutCompletedSince(runs[r]) =>
            /\ ~isLoggedIn
            /\ memoryTokens = [accessToken |-> NULL, expiry |-> NoExpiry]

\* const clientReady = !authLoading && (isLoggedIn ? !!token : true), line 94
\* of AuthProvider.tsx
clientReady == ~authLoading /\ (IF isLoggedIn THEN ~Falsy(token) ELSE TRUE)

\* C30: the token of the context value is null whenever isLoggedIn is false,
\* and it is the token store's current access token whenever isLoggedIn and
\* clientReady are both true
C30_ContextTokenTracksSession ==
    /\ ~isLoggedIn => authToken = NULL
    /\ (isLoggedIn /\ clientReady) => authToken = memoryTokens.accessToken

\* C30, second half for the rendered token: while the provider is logged in
\* with a token, the context carries the token of the hook's return value
C30_ContextTokenIsRenderedToken ==
    (isLoggedIn /\ ~Falsy(token)) => authToken = token

====
